---- MODULE Spec2Model ----
(***************************************************************************)
(* Model of AsyncRequestManager (src/async_requests.py) as it is driven by *)
(* DoorControlSystem (src/door_control.py): submitter threads call         *)
(* submit_request, the processor thread runs process_completed_requests in *)
(* a loop, pool workers finish the futures of dispatched requests.         *)
(*                                                                         *)
(* A request is identified by the value request_counter had when its id    *)
(* was built (the uuid suffix of the id is not modelled).  The Python      *)
(* value None is the string "None" where a result or an error is meant and *)
(* NoRequest where a request id is meant.                                  *)
(***************************************************************************)
EXTENDS Naturals, Sequences, FiniteSets

\* ---------------------------------------------------------------- bounds
\* Total number of submit_request calls explored.
MaxRequests == 4
\* Largest max_concurrent the manager is constructed with.
MaxConcurrentBound == 2
\* Largest PENDING_REQUESTS_LIMIT the configuration is given.
MaxPendingBound == 2

\* ------------------------------------------------------------- constants
\* "No request id": the None of `return None`, and an unset request_id local.
NoRequest == 0

\* Threads that call submit_request: run_automatic_mode (the main thread) and
\* manual_capture_handler both end in capture_and_verify_async.
Submitters == {"automatic", "manual"}
\* The thread running _request_processor.
Processor == "processor"
Threads == Submitters \cup {Processor}
\* The thread followed through get_status: capture_and_verify_async calls it
\* (door_control.py line 290), here from run_automatic_mode.
StatusCaller == "automatic"

RequestIds == 1..MaxRequests

\* What one verification call can do (requests.post and what follows it).
CallOutcomes == {"status_200", "status_other", "timeout", "exception"}

VARIABLES
    max_concurrent,          \* self.max_concurrent
    PENDING_REQUESTS_LIMIT,  \* config.PENDING_REQUESTS_LIMIT
    request_counter,         \* self.request_counter
    active_requests,         \* self.active_requests: dict in insertion order,
                             \*   a sequence of [id, future] entries
    pending_requests,        \* self.pending_requests: deque of queued ids
    lock,                    \* self.lock: the thread holding it, or "free"
    pc,                      \* where each thread is
    request_id,              \* submit_request's local request_id, per thread
    completed_requests,      \* process_completed_requests' local list
    invoked,                 \* per request, how many times its callback
                             \*   has been invoked
    last_callback,           \* the latest callback invocation: the request
                             \*   and the (result, error) it was passed
    callback_threads,        \* requests whose callback Thread, started by a
                             \*   harvest, has not ended
    status,                  \* the dict get_status returned to its caller,
                             \*   while the caller holds it
    executor_shutdown,       \* whether executor.shutdown() has been called
    door,                    \* the latest verification_callback that ran: the
                             \*   request and whether it opened the door
    stats,                   \* self.stats of the door system, with the place
                             \*   of the capturing thread in its capture
    submit_result,           \* per request, what submit_request returned
    dispatch_log,            \* ids handed to executor.submit, in order
    queued_log               \* ids appended to pending_requests, in order

vars == <<max_concurrent, PENDING_REQUESTS_LIMIT, request_counter,
          active_requests, pending_requests, lock, pc, request_id,
          completed_requests, invoked, last_callback, callback_threads,
          status, executor_shutdown, door, stats, submit_result,
          dispatch_log, queued_log>>

ledger == <<active_requests, pending_requests>>
callbacks == <<invoked, last_callback>>
history == <<callbacks, submit_result, dispatch_log, queued_log>>
config == <<max_concurrent, PENDING_REQUESTS_LIMIT>>
door_system == <<executor_shutdown, door, stats>>

\* ------------------------------------------------------- data structures
\* Keys of the active_requests dict and ids held in the deque.
ActiveIdSet == {active_requests[i].id : i \in 1..Len(active_requests)}
PendingIdSet == {pending_requests[i] : i \in 1..Len(pending_requests)}
SeqToSet(s) == {s[i] : i \in 1..Len(s)}

\* d[id] = {'future': fut, ...}: a new key goes last, an existing key keeps
\* its place and gets the new value.
DictSet(d, id, fut) ==
    IF \E i \in 1..Len(d) : d[i].id = id
    THEN [i \in 1..Len(d) |-> IF d[i].id = id THEN [id |-> id, future |-> fut] ELSE d[i]]
    ELSE Append(d, [id |-> id, future |-> fut])

\* A pop that leaves the entry in the dict.
DictPop_Keeps(d, id) == d
\* d.pop(id): the dict without the key.
DictPop(d, id) == SelectSeq(d, LAMBDA e : e.id # id)

\* d[id]['future']
FutureOf(d, id) == (CHOOSE e \in SeqToSet(d) : e.id = id).future

\* A done() that is true of every future.
Done_Always(fut) == TRUE
\* A done() that is true only of a call that produced a result.
Done_OnlyWithResult(fut) == fut = "json"
\* future.done()
Done(fut) == fut # "running"

\* The value _make_request returns for each way the call can go: the parsed
\* body on status 200, None on every other path.
MakeRequestReturn(outcome) ==
    IF outcome = "status_200" THEN "json" ELSE "None"

\* A scan that takes every entry, finished or not.
ScanCompleted_All(d) == [i \in 1..Len(d) |-> d[i].id]
\* A scan that stops at the first finished call.
ScanCompleted_FirstOnly(d) ==
    LET done == SelectSeq(d, LAMBDA e : Done(e.future))
    IN  IF done = << >> THEN << >> ELSE <<done[1].id>>
\* Lines 76-79: the ids of active_requests whose future is done, in dict order.
ScanCompleted(d) ==
    LET done == SelectSeq(d, LAMBDA e : Done(e.future))
    IN  [i \in 1..Len(done) |-> done[i].id]

\* A counter that moves only when the request finds a slot or queue room.
NextCounter_OnAdmission(c) ==
    IF Len(active_requests) < max_concurrent
           \/ Len(pending_requests) < PENDING_REQUESTS_LIMIT
    THEN c + 1 ELSE c
\* Line 24: self.request_counter += 1.
NextCounter(c) == c + 1

\* Variants of the two admission tests with the comparison off by one.
HasFreeSlot_OffByOne == Len(active_requests) <= max_concurrent
HasFreeSlot_Strict == Len(active_requests) + 1 < max_concurrent
HasQueueRoom_OffByOne == Len(pending_requests) <= PENDING_REQUESTS_LIMIT
\* Line 26.
HasFreeSlot == Len(active_requests) < max_concurrent
\* Line 35.
HasQueueRoom == Len(pending_requests) < PENDING_REQUESTS_LIMIT
\* A promotion test that does not look at the slots.
CanPromote_NoSlotTest == Len(pending_requests) > 0
\* A promotion test that wants two free slots.
CanPromote_Strict ==
    Len(active_requests) + 1 < max_concurrent /\ Len(pending_requests) > 0
\* Lines 92-93.
CanPromote == Len(active_requests) < max_concurrent /\ Len(pending_requests) > 0
\* A pop() in place of popleft(): the element at the right end is taken.
PopLeft_Right(q) == [elem |-> q[Len(q)], rest |-> SubSeq(q, 1, Len(q) - 1)]
\* An appendleft() in place of append().
DequeAppend_Left(q, x) == <<x>> \o q
\* A read of the left end that leaves it in the deque.
PopLeft_Peek(q) == [elem |-> Head(q), rest |-> q]
\* Line 94: deque.popleft() takes the element at the left end.
PopLeft(q) == [elem |-> Head(q), rest |-> Tail(q)]
\* Line 36: deque.append() adds at the right end.
DequeAppend(q, x) == Append(q, x)

\* Line 87: the arguments the harvest passes to the callback.
HarvestArgs(result) == [result |-> result, error |-> "None"]
\* A rejection that passes no error.
OverloadArgs_NoError == [result |-> "None", error |-> "None"]
\* Line 46: the arguments of the overload rejection.
OverloadArgs == [result |-> "None", error |-> "Queue full - system overloaded"]

\* A start() that returns only when the callback has returned, as a direct
\* call of the callback would.
StartWaits_ForCallback == callback_threads # {}
\* Lines 87 and 91: Thread(...).start() returns once the thread is started;
\* the processor does not wait for the callback to return.
StartWaits == FALSE

\* A get_status that counts only the calls still running.
StatusOf_RunningOnly(active, pending) ==
    [active_requests |->
         Cardinality({i \in 1..Len(active) : ~Done(active[i].future)}),
     pending_requests |-> Len(pending),
     max_concurrent |-> max_concurrent]
\* Lines 111-115: the dict get_status builds.
StatusOf(active, pending) ==
    [active_requests |-> Len(active), pending_requests |-> Len(pending),
     max_concurrent |-> max_concurrent]
\* A thread that holds no get_status result.
NoStatus == [active_requests |-> 0, pending_requests |-> 0, max_concurrent |-> 0]

\* request_info['callback'](result, error) is called for request id.
InvokeCallback(id, args) ==
    /\ invoked' = [invoked EXCEPT ![id] = @ + 1]
    /\ last_callback' = [id |-> id, args |-> args]

\* A lock that lets a thread in while another holds it.
Acquirable_Always == TRUE
\* threading.Lock (line 19): `with self.lock` goes on only when no thread
\* holds the lock.
Acquirable == lock = "free"

\* ThreadPoolExecutor.submit raises RuntimeError once shutdown() was called
\* (door_control.py line 424 calls it while the processor thread goes on).
ExecutorRefuses == executor_shutdown

\* config.py line 27.
FACE_DETECTION_ENABLED == TRUE
\* No verification_callback has run yet.
NoDoor == [id |-> NoRequest, open |-> FALSE]
\* door_control.py lines 59-65: the counters start at 0.  face_detection is
\* the test of line 274 (the flag and a detector object), fixed for a run;
\* stage is where the capturing thread is in capture_and_verify_async.
InitStats(enabled) ==
    [face_detection |-> enabled, faces_detected |-> 0, api_calls_made |-> 0,
     stage |-> "idle"]

\* ------------------------------------------------------------------ init
\* AsyncRequestManager.__init__ (lines 14-20).
ManagerInit ==
    /\ max_concurrent \in 1..MaxConcurrentBound
    /\ PENDING_REQUESTS_LIMIT \in 0..MaxPendingBound
    /\ request_counter = 0
    /\ active_requests = << >>
    /\ pending_requests = << >>
    /\ lock = "free"
    /\ pc = [t \in Threads |-> "idle"]
    /\ request_id = [t \in Submitters |-> NoRequest]
    /\ completed_requests = << >>
    /\ invoked = [r \in RequestIds |-> 0]
    /\ last_callback = [id |-> NoRequest, args |-> HarvestArgs("None")]
    /\ callback_threads = {}
    /\ status = NoStatus
    /\ submit_result = [r \in RequestIds |-> "not_returned"]
    /\ dispatch_log = << >>
    /\ queued_log = << >>

\* DoorControlSystem.__init__: the manager, the counters, a running pool.
Init ==
    /\ ManagerInit
    /\ executor_shutdown = FALSE
    /\ door = NoDoor
    /\ stats = InitStats(FACE_DETECTION_ENABLED)

\* ------------------------------------------------------- submit_request
\* submit_request is called and the lock is acquired (line 23).
SubmitCall(t) ==
    /\ pc[t] = "idle"
    /\ request_counter < MaxRequests
    /\ Acquirable
    /\ lock' = t
    /\ pc' = [pc EXCEPT ![t] = "admit"]
    /\ UNCHANGED <<config, callback_threads, status, request_counter, ledger, request_id,
                   completed_requests, history>>

\* A call of submit_request by a thread, whatever made the thread call it.
SubmitEnter(t) ==
    /\ SubmitCall(t)
    /\ UNCHANGED door_system

\* Lines 24-45: the id is built and the admission decision is taken.
SubmitAdmit(t) ==
    /\ pc[t] = "admit"
    /\ lock = t
    /\ request_counter' = NextCounter(request_counter)
    /\ request_id' = [request_id EXCEPT ![t] = NextCounter(request_counter)]
    /\ LET id == NextCounter(request_counter) IN
       IF HasFreeSlot
       THEN /\ ~ExecutorRefuses
            /\ dispatch_log' = Append(dispatch_log, id)
            /\ active_requests' = DictSet(active_requests, id, "running")
            /\ pc' = [pc EXCEPT ![t] = "return_id"]
            /\ UNCHANGED <<pending_requests, queued_log>>
       ELSE IF HasQueueRoom
       THEN /\ pending_requests' = DequeAppend(pending_requests, id)
            /\ queued_log' = Append(queued_log, id)
            /\ pc' = [pc EXCEPT ![t] = "return_id"]
            /\ UNCHANGED <<active_requests, dispatch_log>>
       ELSE /\ pc' = [pc EXCEPT ![t] = "callback"]
            /\ UNCHANGED <<ledger, dispatch_log, queued_log>>
    /\ UNCHANGED <<config, door_system, callback_threads, status, lock, completed_requests, callbacks, submit_result>>

\* Line 46: the rejected request's callback is called in the submitting
\* thread, inside the with block.
SubmitRejectCallback(t) ==
    /\ pc[t] = "callback"
    /\ InvokeCallback(request_id[t], OverloadArgs)
    /\ pc' = [pc EXCEPT ![t] = "in_callback"]
    /\ UNCHANGED <<config, door_system, callback_threads, status, request_counter, ledger, lock, request_id,
                   completed_requests, submit_result, dispatch_log, queued_log>>

\* Line 46: the callback returns to submit_request.
SubmitRejectCallbackReturn(t) ==
    /\ pc[t] = "in_callback"
    /\ pc' = [pc EXCEPT ![t] = "return_none"]
    /\ UNCHANGED <<config, door_system, callback_threads, status, request_counter, ledger, lock, request_id,
                   completed_requests, history>>

\* Lines 34, 43, 47: the return value; leaving the with block frees the lock.
SubmitReturn(t) ==
    /\ pc[t] \in {"return_id", "return_none"}
    /\ lock = t
    /\ lock' = "free"
    /\ submit_result' =
         [submit_result EXCEPT ![request_id[t]] =
             IF pc[t] = "return_id" THEN "id" ELSE "None"]
    /\ request_id' = [request_id EXCEPT ![t] = NoRequest]
    /\ pc' = [pc EXCEPT ![t] = "idle"]
    /\ UNCHANGED <<config, door_system, callback_threads, status, request_counter, ledger, completed_requests,
                   callbacks, dispatch_log, queued_log>>

\* ------------------------------------------------------- _make_request
\* A pool worker finishes the call of a dispatched request: the future of
\* its active_requests entry becomes done and holds the return value.
WorkerFinish(id, outcome) ==
    /\ id \in ActiveIdSet
    /\ FutureOf(active_requests, id) = "running"
    /\ active_requests' = DictSet(active_requests, id, MakeRequestReturn(outcome))
    /\ UNCHANGED <<config, door_system, callback_threads, status, request_counter, pending_requests, lock, pc,
                   request_id, completed_requests, history>>

\* ------------------------------------------- process_completed_requests
\* Lines 75-79: the lock is acquired and active_requests is scanned.
ProcessEnter ==
    /\ pc[Processor] = "idle"
    /\ Acquirable
    /\ lock' = Processor
    /\ completed_requests' = ScanCompleted(active_requests)
    /\ pc' = [pc EXCEPT ![Processor] = "harvest"]
    /\ UNCHANGED <<config, door_system, callback_threads, status, request_counter, ledger, request_id, history>>

\* Lines 80-87, one iteration: the entry is popped and a Thread running the
\* callback with (result, None) is started.  future.result() (line 83)
\* returns only once the call of the future has finished.
ProcessHarvest ==
    /\ pc[Processor] = "harvest"
    /\ ~StartWaits
    /\ completed_requests # << >>
    /\ Done(FutureOf(active_requests, Head(completed_requests)))
    /\ LET id == Head(completed_requests)
           result == FutureOf(active_requests, id)
       IN  /\ active_requests' = DictPop(active_requests, id)
           /\ InvokeCallback(id, HarvestArgs(result))
           /\ callback_threads' = callback_threads \cup {id}
    /\ completed_requests' = Tail(completed_requests)
    /\ UNCHANGED <<config, door_system, status, request_counter, pending_requests, lock, pc,
                   request_id, submit_result, dispatch_log, queued_log>>

\* Lines 92-105, one iteration: the head of the queue is made active and its
\* call is handed to the pool.
ProcessPromote ==
    /\ pc[Processor] = "harvest"
    /\ ~StartWaits
    /\ completed_requests = << >>
    /\ CanPromote
    /\ ~ExecutorRefuses
    /\ LET popped == PopLeft(pending_requests)
           id == popped.elem
       IN
       /\ pending_requests' = popped.rest
       /\ dispatch_log' = Append(dispatch_log, id)
       /\ active_requests' = DictSet(active_requests, id, "running")
    /\ UNCHANGED <<config, door_system, callback_threads, status, request_counter, lock, pc, request_id,
                   completed_requests, callbacks, submit_result, queued_log>>

\* The while loop ends and the with block is left; the thread sleeps (line 84
\* of door_control.py) until the next pass.
ProcessExit ==
    /\ pc[Processor] = "harvest"
    /\ ~StartWaits
    /\ completed_requests = << >>
    /\ ~CanPromote
    /\ lock' = "free"
    /\ pc' = [pc EXCEPT ![Processor] = "idle"]
    /\ UNCHANGED <<config, door_system, callback_threads, status, request_counter, ledger, request_id,
                   completed_requests, history>>

\* ----------------------------------------------------- callback threads
\* An exception of a callback that the harvest's own try block catches:
\* lines 88-91 start the callback again, with the text of the exception.
CallbackFault_CaughtByHarvest(id) ==
    /\ InvokeCallback(id, [result |-> "None", error |-> "callback error"])
    /\ UNCHANGED <<ledger, lock, pc, completed_requests>>
\* Line 87: the callback runs in a Thread of its own, so an exception it
\* raises ends that Thread and reaches neither the processor nor the ledger.
CallbackFault(id) ==
    UNCHANGED <<ledger, lock, pc, completed_requests, callbacks>>

\* The Thread started at line 87 for the callback of a harvested request
\* ends: the callback returns, or it raises and the exception ends the Thread.
CallbackThreadEnd(id, how) ==
    /\ id \in callback_threads
    /\ callback_threads' = callback_threads \ {id}
    /\ IF how = "raises"
       THEN CallbackFault(id)
       ELSE UNCHANGED <<ledger, lock, pc, completed_requests, callbacks>>
    /\ UNCHANGED <<config, door_system, status, request_counter, request_id,
                   submit_result, dispatch_log, queued_log>>

\* The callback of a rejection, running at line 46 under the lock, calls
\* submit_request or get_status of the same manager: it reaches `with
\* self.lock` (line 23 or 110).  The lock is held by this very thread and
\* threading.Lock is not reentrant, so no step of the thread follows.
RejectCallbackReenters(t) ==
    /\ pc[t] = "in_callback"
    /\ pc' = [pc EXCEPT ![t] = "reentered"]
    /\ UNCHANGED <<config, door_system, callback_threads, status, request_counter, ledger, lock,
                   request_id, completed_requests, history>>

\* ------------------------------------------------------------ get_status
\* Lines 110-115, the whole call: the lock is acquired, the dict is built
\* from the ledger, the with block is left and the dict is returned.  The
\* caller may hold the dict of an earlier call.
GetStatus ==
    /\ pc[StatusCaller] \in {"idle", "got_status"}
    /\ Acquirable
    /\ status' = StatusOf(active_requests, pending_requests)
    /\ pc' = [pc EXCEPT ![StatusCaller] = "got_status"]
    /\ UNCHANGED <<config, door_system, callback_threads, request_counter, ledger, lock,
                   request_id, completed_requests, history>>

\* The caller has used the dict (door_control.py line 291 logs it) and goes
\* on.
StatusUsed ==
    /\ pc[StatusCaller] = "got_status"
    /\ status' = NoStatus
    /\ pc' = [pc EXCEPT ![StatusCaller] = "idle"]
    /\ UNCHANGED <<config, door_system, callback_threads, request_counter, ledger, lock,
                   request_id, completed_requests, history>>

\* ------------------------------------------------------------------ spec
Next ==
    \/ \E t \in Submitters : SubmitEnter(t)
    \/ \E t \in Submitters : SubmitAdmit(t)
    \/ \E t \in Submitters : SubmitRejectCallback(t)
    \/ \E t \in Submitters : SubmitRejectCallbackReturn(t)
    \/ \E t \in Submitters : SubmitReturn(t)
    \/ \E id \in RequestIds, outcome \in CallOutcomes : WorkerFinish(id, outcome)
    \/ ProcessEnter
    \/ ProcessHarvest
    \/ ProcessPromote
    \/ ProcessExit

Spec == Init /\ [][Next]_vars

\* The processor thread loops forever (door_control.py lines 81-87), so each
\* step of its pass is taken when it stays possible; a thread inside
\* submit_request runs on to its return; every dispatched call finishes
\* (requests.post returns or raises within RESPONSE_TIMEOUT).
ProcessorStep == ProcessEnter \/ ProcessHarvest \/ ProcessPromote \/ ProcessExit
SubmitterStep(t) ==
    \/ SubmitEnter(t) \/ SubmitAdmit(t) \/ SubmitRejectCallback(t)
    \/ SubmitRejectCallbackReturn(t) \/ SubmitReturn(t)
WorkerStep(id) == \E outcome \in CallOutcomes : WorkerFinish(id, outcome)

Fairness ==
    /\ WF_vars(ProcessorStep)
    /\ WF_vars(\E t \in Submitters : SubmitterStep(t))
    /\ WF_vars(\E id \in RequestIds : WorkerStep(id))

FairSpec == Spec /\ Fairness

\* The manager together with the end of the callback Threads its harvests
\* start: each callback returns, raises, or goes on running.
CallbackNext ==
    \/ Next
    \/ \E id \in RequestIds, how \in {"returns", "raises"} :
           CallbackThreadEnd(id, how)
CallbackSpec == Init /\ [][CallbackNext]_vars

\* The manager with rejection callbacks that call back into the manager.
ReentrantNext ==
    \/ Next
    \/ \E t \in Submitters : RejectCallbackReenters(t)
ReentrantSpec == Init /\ [][ReentrantNext]_vars

\* The manager with threads that also ask for its status.
StatusNext ==
    \/ Next
    \/ GetStatus
    \/ StatusUsed
StatusSpec == Init /\ [][StatusNext]_vars

\* ------------------------------------------------------------ properties
\* Requests whose submit_request returned an id / returned None.
Admitted == {r \in RequestIds : submit_result[r] = "id"}
Rejected == {r \in RequestIds : submit_result[r] = "None"}
\* Queued requests that were later handed to the pool by a promotion.
Promoted == SeqToSet(queued_log) \cap SeqToSet(dispatch_log)

\* C1: in every reachable state the number of entries of active_requests is
\* at most max_concurrent.
C1_ActiveWithinMaxConcurrent == Len(active_requests) <= max_concurrent

\* C1 witness: every slot is taken, one of them by a promoted request, while
\* a further submission has been turned away.
C1_Witness ==
    /\ Len(active_requests) = max_concurrent
    /\ max_concurrent > 1
    /\ Promoted \cap ActiveIdSet # {}
    /\ Rejected # {}

\* C2: in every reachable state the length of pending_requests is at most
\* PENDING_REQUESTS_LIMIT, a limit of 0 included.
C2_PendingWithinLimit == Len(pending_requests) <= PENDING_REQUESTS_LIMIT

\* C2 witness: the queue holds as many requests as the limit allows and a
\* submission arriving at the full queue has been rejected.
C2_Witness ==
    /\ PENDING_REQUESTS_LIMIT > 0
    /\ Len(pending_requests) = PENDING_REQUESTS_LIMIT
    /\ \E r \in Rejected : r > pending_requests[1]

\* C3: the callback of a request whose submit_request returned an id is
\* invoked at most once.
C3_CallbackAtMostOnce == \A r \in Admitted : invoked[r] <= 1

\* C3 witness: two admitted requests have had their callbacks invoked, and
\* the processor is in a later pass.
C3_Witness ==
    /\ \E r1, r2 \in Admitted :
          r1 # r2 /\ invoked[r1] = 1 /\ invoked[r2] = 1
    /\ pc[Processor] = "harvest"
    /\ request_counter = MaxRequests

\* C4: under FairSpec every request whose submit_request returned an id
\* eventually has its callback invoked.  A returned id stays returned and
\* invoked never decreases, so it is enough that, again and again, no
\* admitted request is left without its callback.
C4_AdmittedEventuallyCalledBack ==
    []<>(\A r \in Admitted : invoked[r] >= 1)

\* C4 witness: a request that was queued, promoted and whose call failed has
\* had its callback invoked.
C4_Witness ==
    \E r \in Admitted \cap Promoted :
        invoked[r] = 1 /\ last_callback = [id |-> r, args |-> HarvestArgs("None")]

\* Both bounds are reached: the state in which line 44 is taken.
Saturated ==
    /\ Len(active_requests) = max_concurrent
    /\ Len(pending_requests) = PENDING_REQUESTS_LIMIT
\* The request of thread t's call is neither dispatched nor queued.
OutsideLedger(t) ==
    request_id[t] \notin SeqToSet(dispatch_log) \cup SeqToSet(queued_log)

\* C5: submit_request returns None if and only if, when the admission
\* decision is taken, active_requests holds max_concurrent entries and
\* pending_requests holds PENDING_REQUESTS_LIMIT entries; otherwise it
\* returns the request id.
C5_RejectIffSaturated ==
    [][\A t \in Submitters :
          /\ SubmitAdmit(t) => (OutsideLedger(t)' <=> Saturated)
          /\ SubmitReturn(t) =>
                submit_result'[request_id[t]] =
                    (IF OutsideLedger(t) THEN "None" ELSE "id")]_vars

\* C5 witness: one call has returned None and another, which found the
\* slots taken but room in the queue, has returned its id.
C5_Witness ==
    /\ Rejected # {}
    /\ Admitted \cap SeqToSet(queued_log) # {}
    /\ Admitted \ SeqToSet(queued_log) # {}

\* C6: a rejecting submit_request invokes the callback exactly once, in the
\* submitting thread before it returns, with no result and an overload
\* error; it leaves active_requests and pending_requests as they were; the
\* rejected request is never in the ledger and its callback is not invoked
\* again.
C6_RejectionCallsBackOnce ==
    /\ [](\A r \in Rejected :
            /\ invoked[r] = 1
            /\ r \notin ActiveIdSet \cup PendingIdSet
            /\ r \notin SeqToSet(dispatch_log) \cup SeqToSet(queued_log))
    /\ [][\A t \in Submitters :
            /\ (SubmitAdmit(t) /\ pc'[t] = "callback") => UNCHANGED ledger
            /\ SubmitRejectCallback(t) =>
                  /\ UNCHANGED ledger
                  /\ lock = t /\ lock' = t
                  /\ invoked[request_id[t]] = 0
                  /\ invoked'[request_id[t]] = 1
                  /\ last_callback'.id = request_id[t]
                  /\ last_callback'.args.result = "None"
                  /\ last_callback'.args.error = "Queue full - system overloaded"
            /\ (SubmitReturn(t) /\ submit_result'[request_id[t]] = "None") =>
                  /\ UNCHANGED ledger
                  /\ invoked[request_id[t]] = 1]_vars

\* C6 witness: a request was rejected, and a request submitted after it has
\* since been admitted, harvested and called back.
C6_Witness ==
    \E r \in Rejected, a \in Admitted : a > r /\ invoked[a] = 1 /\ invoked[r] = 1

\* C7: submit_request called with fewer than max_concurrent active requests
\* inserts the new request into active_requests with its call dispatched,
\* returns its id, leaves pending_requests unchanged and does not invoke the
\* callback.
C7_ImmediateAdmission ==
    [][\A t \in Submitters :
          /\ (SubmitAdmit(t) /\ Len(active_requests) < max_concurrent) =>
                LET id == request_counter + 1 IN
                /\ id \notin ActiveIdSet
                /\ active_requests' =
                       Append(active_requests, [id |-> id, future |-> "running"])
                /\ dispatch_log' = Append(dispatch_log, id)
                /\ request_id'[t] = id
                /\ pc'[t] = "return_id"
                /\ UNCHANGED <<pending_requests, callbacks>>
          /\ (SubmitReturn(t) /\ request_id[t] \in SeqToSet(dispatch_log)) =>
                /\ submit_result'[request_id[t]] = "id"
                /\ invoked[request_id[t]] = 0
                /\ UNCHANGED <<ledger, callbacks>>]_vars

\* C7 witness: a request that took the second of two slots at submission has
\* been returned its id and its call is running.
C7_Witness ==
    /\ Len(active_requests) = 2
    /\ active_requests[2].future = "running"
    /\ active_requests[2].id \in Admitted \ SeqToSet(queued_log)

\* C8: submit_request called with active_requests full and pending_requests
\* below the limit appends the new request at the tail of pending_requests,
\* returns its id, leaves active_requests unchanged, dispatches no call for it
\* and does not invoke the callback.
C8_QueuedAdmission ==
    [][\A t \in Submitters :
          /\ (/\ SubmitAdmit(t)
              /\ Len(active_requests) = max_concurrent
              /\ Len(pending_requests) < PENDING_REQUESTS_LIMIT) =>
                LET id == request_counter + 1 IN
                /\ pending_requests' = pending_requests \o <<id>>
                /\ request_id'[t] = id
                /\ pc'[t] = "return_id"
                /\ UNCHANGED <<active_requests, dispatch_log, callbacks>>
          /\ (SubmitReturn(t) /\ request_id[t] \in SeqToSet(queued_log)) =>
                /\ submit_result'[request_id[t]] = "id"
                /\ request_id[t] \in PendingIdSet
                /\ request_id[t] \notin SeqToSet(dispatch_log)
                /\ invoked[request_id[t]] = 0
                /\ UNCHANGED <<ledger, callbacks>>]_vars

\* C8 witness: two requests were queued one behind the other and both calls
\* to submit_request have returned.
C8_Witness ==
    /\ Len(pending_requests) = 2
    /\ pending_requests[1] < pending_requests[2]
    /\ PendingIdSet \subseteq Admitted
    /\ Len(active_requests) = max_concurrent

\* The queued requests in the order their calls were handed to the pool.
PromotedLog == SelectSeq(dispatch_log, LAMBDA r : r \in SeqToSet(queued_log))
IsPrefix(s, t) == Len(s) <= Len(t) /\ s = SubSeq(t, 1, Len(s))

\* C9: queued requests are promoted in the order they were queued: at every
\* moment the promotions made so far are the first entries of the queueing
\* order, in that order.
C9_PromotionIsFifo == IsPrefix(PromotedLog, queued_log)

\* C9 witness: two requests waited in the queue together (a later submission
\* found the queue of two full and was rejected) and both have been promoted.
C9_Witness ==
    /\ PENDING_REQUESTS_LIMIT = 2
    /\ Len(queued_log) = 2
    /\ PromotedLog = queued_log
    /\ \E r \in Rejected : \A i \in 1..2 : queued_log[i] < r

\* C10: a request id is in at most one of active_requests and
\* pending_requests (and at most once in each), and once its callback has
\* been started it is in neither.
C10_LedgerMembershipExclusive ==
    /\ ActiveIdSet \cap PendingIdSet = {}
    /\ Cardinality(ActiveIdSet) = Len(active_requests)
    /\ Cardinality(PendingIdSet) = Len(pending_requests)
    /\ \A r \in RequestIds :
          invoked[r] > 0 => r \notin ActiveIdSet \cup PendingIdSet

\* C10 witness: a request that went through the queue and through
\* active_requests has been called back while other requests are active and
\* queued.
C10_Witness ==
    /\ \E r \in Promoted : invoked[r] = 1
    /\ active_requests # << >>
    /\ pending_requests # << >>

\* ------------------------------------------------- failures at the harvest

\* What the harvest hands to the callback of a request whose call ended
\* with `outcome`: lines 62-72 fix what the future holds, line 87 what is
\* passed on.
HarvestDelivery(outcome) == HarvestArgs(MakeRequestReturn(outcome))

\* C11: every callback invocation carries a result or an error description;
\* the callback is never invoked with the result and the error both absent.
C11_ResultOrError ==
    last_callback.id # NoRequest =>
        ~ (last_callback.args.result = "None" /\ last_callback.args.error = "None")

\* C12: when a call ends by time-out, what the harvest will hand to the
\* callback has no result and an error that is present and differs from what
\* is handed over after a transport error and after a non-200 status; so the
\* step in which the call times out is not also a step in which it ends in
\* one of the other two ways.
C12_TimeoutIdentified ==
    [][\A id \in RequestIds :
         WorkerFinish(id, "timeout") =>
             LET args == HarvestArgs(FutureOf(active_requests', id))
             IN  /\ args.result = "None"
                 /\ args.error # "None"
                 /\ args # HarvestDelivery("exception")
                 /\ args # HarvestDelivery("status_other")
                 /\ ~ WorkerFinish(id, "exception")
                 /\ ~ WorkerFinish(id, "status_other")]_vars

\* ------------------------------------------------- callbacks and the lock

\* The thread is inside the body of a callback it called itself.
InCallback(t) == pc[t] \in {"in_callback", "reentered"}

\* C13: the lock is never held by a thread while that thread executes a
\* request callback; the callbacks of harvests run in Threads of their own,
\* which never take the lock, so this is about the threads that call
\* submit_request.
C13_CallbackRunsUnlocked ==
    \A t \in Submitters : InCallback(t) => lock # t

\* C14: a callback that calls submit_request or get_status of the same
\* manager never waits for a lock that its own thread holds, a wait that no
\* step of any thread can end.
C14_ReentrantCallNeverStuck ==
    \A t \in Submitters : ~ (pc[t] = "reentered" /\ lock = t)

\* Requests a harvest has popped from active_requests.
Harvested == SeqToSet(dispatch_log) \ ActiveIdSet

\* C15: a callback that raises is not invoked a second time, and its raising
\* changes nothing of the pass: the ledger, the list of requests the pass
\* still has to pop and call back, the position of the processor and the lock
\* stay as they are, and the pass ends only when every request it found
\* finished has been popped and called back and the promotion has run until
\* active_requests is full or pending_requests is empty.
C15_RaisingCallbackIsolated ==
    /\ [](\A r \in Harvested : invoked[r] = 1)
    /\ [][/\ \A id \in RequestIds :
                CallbackThreadEnd(id, "raises") =>
                    UNCHANGED <<ledger, completed_requests, pc, lock, callbacks>>
          /\ (pc[Processor] = "harvest" /\ pc'[Processor] = "idle") =>
                 /\ completed_requests = << >>
                 /\ ~CanPromote]_vars

\* A callback Thread has ended in the middle of a pass that still has a
\* finished request to harvest and a queued request to promote.
C15_Witness ==
    /\ pc[Processor] = "harvest"
    /\ completed_requests # << >>
    /\ pending_requests # << >>
    /\ \E r \in Harvested : r \notin callback_threads

\* C16: while the callback of a harvested request is still running, the
\* processor is never held up: inside a pass its next step (harvest,
\* promotion or the end of the pass) can be taken, and between passes a new
\* pass can start as soon as the lock is free.
C16_RunningCallbackBlocksNoPass ==
    callback_threads # {} =>
        /\ pc[Processor] = "harvest" => ENABLED ProcessorStep
        /\ (pc[Processor] = "idle" /\ lock = "free") => ENABLED ProcessEnter

\* With one slot: the callback of request 1 is still running after request 2
\* was promoted by the pass that harvested 1, harvested by a later pass, and
\* its own callback has ended.
C16_Witness ==
    /\ max_concurrent = 1
    /\ 1 \in callback_threads
    /\ 2 \in Promoted
    /\ 2 \in Harvested
    /\ 2 \notin callback_threads

\* ------------------------------------------------------------- scenarios

\* The keys of active_requests in dict order.
ActiveIdSeq == [i \in 1..Len(active_requests) |-> active_requests[i].id]

\* C17: with max_concurrent = 2 and PENDING_REQUESTS_LIMIT = 1, once four
\* submissions have returned and nothing has been harvested, active_requests
\* holds requests 1 and 2, pending_requests holds request 3, and request 4 was
\* rejected through its callback with the overload error; and when request 1
\* has then been harvested, no pass leaves the lock before request 3 is
\* promoted: outside a pass active_requests holds 2 and 3 and pending_requests
\* is empty.
C17_TwoSlotsOneQueued ==
    (max_concurrent = 2 /\ PENDING_REQUESTS_LIMIT = 1) =>
        /\ ((\A r \in 1..4 : submit_result[r] # "not_returned")
                /\ Harvested = {}) =>
               /\ ActiveIdSeq = <<1, 2>>
               /\ pending_requests = <<3>>
               /\ submit_result[3] = "id"
               /\ submit_result[4] = "None"
               /\ invoked[4] = 1
               /\ request_counter = 4 =>
                      last_callback =
                          [id |-> 4,
                           args |-> [result |-> "None",
                                     error |-> "Queue full - system overloaded"]]
        /\ (submit_result[4] = "None" /\ request_counter = 4
                /\ Harvested = {1} /\ lock # Processor) =>
               /\ ActiveIdSeq = <<2, 3>>
               /\ pending_requests = << >>
               /\ invoked[1] = 1

\* The end of the scenario: request 4 was rejected, request 1 has been
\* harvested by a pass that is over, and request 3 has taken its slot.
C17_Witness ==
    /\ max_concurrent = 2 /\ PENDING_REQUESTS_LIMIT = 1
    /\ submit_result[4] = "None" /\ request_counter = 4
    /\ Harvested = {1} /\ lock # Processor
    /\ ActiveIdSeq = <<2, 3>>
    /\ invoked[4] = 1

\* C18: with PENDING_REQUESTS_LIMIT = 0 nothing is ever placed in
\* pending_requests; and with max_concurrent = 1 as well, a submission decided
\* while request 1 is in active_requests, its call finished or not, takes the
\* rejection branch at once and leaves the ledger as it is, so that a second
\* request that has returned while request 1 is still active has returned
\* None and had its callback invoked.
C18_ZeroLimitRejects ==
    /\ [](PENDING_REQUESTS_LIMIT = 0 =>
            /\ pending_requests = << >>
            /\ queued_log = << >>
            /\ (max_concurrent = 1 /\ 1 \in ActiveIdSet
                    /\ submit_result[2] # "not_returned") =>
                   (submit_result[2] = "None" /\ invoked[2] = 1))
    /\ [][\A t \in Submitters :
            (SubmitAdmit(t) /\ PENDING_REQUESTS_LIMIT = 0
                 /\ max_concurrent = 1 /\ active_requests # << >>) =>
                (pc'[t] = "callback" /\ UNCHANGED ledger)]_vars

\* Request 1 is finished but not yet harvested, and request 2 was rejected.
C18_Witness ==
    /\ max_concurrent = 1 /\ PENDING_REQUESTS_LIMIT = 0
    /\ active_requests # << >>
    /\ active_requests[1].id = 1
    /\ Done(active_requests[1].future)
    /\ submit_result[2] = "None"

\* ------------------------------------------------------------ get_status

\* C19: a get_status call changes nothing of the manager (the ledger with
\* its futures, request_counter, the lock, the callbacks); it returns the
\* two lengths and max_concurrent, so a call made while the ledger still has
\* the lengths the caller's previous dict recorded returns that dict again.
C19_GetStatusReadsOnly ==
    [][GetStatus =>
         /\ UNCHANGED <<config, door_system, request_counter, ledger, lock, request_id,
                        completed_requests, callback_threads, history>>
         /\ status' = [active_requests |-> Len(active_requests),
                       pending_requests |-> Len(pending_requests),
                       max_concurrent |-> max_concurrent]
         /\ (/\ pc[StatusCaller] = "got_status"
             /\ status.active_requests = Len(active_requests)
             /\ status.pending_requests = Len(pending_requests)) =>
                status' = status]_vars

\* The caller holds the dict of a ledger with both slots taken, one of them by
\* a finished call not yet harvested, and a request queued; the ledger has
\* the lengths the dict records.
C19_Witness ==
    /\ pc[StatusCaller] = "got_status"
    /\ status.active_requests = 2
    /\ status.pending_requests = 1
    /\ Len(active_requests) = 2
    /\ Len(pending_requests) = 1
    /\ \E i \in 1..Len(active_requests) : Done(active_requests[i].future)

\* C20: get_status reads the ledger only when no thread is inside
\* submit_request or inside a pass, so the dict it returns is the ledger as
\* it stood at a lock boundary: its active count is at most max_concurrent,
\* its pending count at most PENDING_REQUESTS_LIMIT, and it never shows a
\* queued request next to a free slot, as the ledger is between the removals
\* and the promotions of one pass.
C20_StatusIsBoundarySnapshot ==
    /\ [](status # NoStatus =>
            /\ status.active_requests <= status.max_concurrent
            /\ status.max_concurrent = max_concurrent
            /\ status.pending_requests <= PENDING_REQUESTS_LIMIT
            /\ status.pending_requests > 0 =>
                   status.active_requests = max_concurrent)
    /\ [][GetStatus =>
            /\ lock = "free"
            /\ pc[Processor] = "idle"
            /\ completed_requests = << >>
            /\ \A t \in Submitters : pc[t] \in {"idle", "got_status"}]_vars

\* A dict returned after a pass that harvested and promoted: it shows the
\* slots full again and a request still queued.
C20_Witness ==
    /\ pc[StatusCaller] = "got_status"
    /\ Promoted # {}
    /\ status.pending_requests > 0
    /\ status.active_requests = max_concurrent
    /\ status = StatusOf(active_requests, pending_requests)

\* --------------------------------------------------------------- dispatch

\* How many times the call of request r was handed to the pool.
DispatchCount(r) ==
    Cardinality({i \in 1..Len(dispatch_log) : dispatch_log[i] = r})

\* C21: the call of a request is handed to the pool at most once: never for
\* a rejected request, never again for a request that was harvested, whatever
\* its call returned, and exactly once for a queued request, at the moment it
\* leaves pending_requests.
C21_DispatchedAtMostOnce ==
    /\ [](/\ \A r \in RequestIds : DispatchCount(r) <= 1
          /\ \A r \in Rejected : DispatchCount(r) = 0
          /\ \A r \in SeqToSet(queued_log) :
                DispatchCount(r) = IF r \in PendingIdSet THEN 0 ELSE 1)
    /\ [][\A r \in Harvested : DispatchCount(r)' = 1 /\ r \in Harvested']_vars

\* A request whose call failed has been harvested, another was rejected, and
\* a queued one has been promoted.
C21_Witness ==
    /\ \E r \in Harvested :
          last_callback = [id |-> r, args |-> HarvestArgs("None")]
    /\ Rejected # {}
    /\ Promoted # {}

\* C22: a thread that holds the lock never waits: whatever the calls of the
\* active requests are doing, the next step of the thread inside
\* submit_request or inside a pass can be taken; and a pass asks for the
\* result of a future only when the call of that future has finished.
C22_NoWaitUnderLock ==
    /\ [](/\ lock = Processor => ENABLED ProcessorStep
          /\ \A t \in Submitters : lock = t => ENABLED SubmitterStep(t))
    /\ [][ProcessHarvest =>
            FutureOf(active_requests, Head(completed_requests)) # "running"]_vars

\* Every slot is taken by a call that is still running and nothing was ever
\* harvested; a pass is under way, and submissions have returned all the
\* same, one queued and one rejected.
C22_Witness ==
    /\ Len(active_requests) = max_concurrent
    /\ \A i \in 1..Len(active_requests) : active_requests[i].future = "running"
    /\ Harvested = {}
    /\ lock = Processor
    /\ Admitted \cap SeqToSet(queued_log) # {}
    /\ Rejected # {}

\* ------------------------------------------------------------ request ids

\* Every id the manager has given out or holds anywhere.
KnownIds ==
    (ActiveIdSet \cup PendingIdSet \cup SeqToSet(dispatch_log)
        \cup SeqToSet(queued_log) \cup Admitted \cup Rejected
        \cup {request_id[t] : t \in Submitters}) \ {NoRequest}

\* C23: request_counter never decreases and goes up by exactly one in every
\* submit_request call, whether the request is made active, queued or
\* rejected; the id of the call is the new counter value, which no earlier
\* call was given, so no two calls, of one thread or of two, share an id.
C23_IdsNeverReused ==
    /\ [](/\ KnownIds \subseteq 1..request_counter
          /\ \A t1, t2 \in Submitters :
                (t1 # t2 /\ request_id[t1] # NoRequest) =>
                    request_id[t1] # request_id[t2])
    /\ [][/\ request_counter' >= request_counter
          /\ \A t \in Submitters :
                SubmitAdmit(t) =>
                    /\ request_counter' = request_counter + 1
                    /\ request_id'[t] = request_counter'
                    /\ request_id'[t] \notin KnownIds
          /\ (\A t \in Submitters : ~SubmitAdmit(t)) =>
                 UNCHANGED request_counter]_vars

\* A call has just been given the third or a later id, after calls that
\* were made active, queued and rejected.
C23_Witness ==
    /\ \E t \in Submitters :
          pc[t] \in {"return_id", "callback"} /\ request_id[t] = request_counter
    /\ request_counter >= 3
    /\ Rejected # {}
    /\ Admitted \cap SeqToSet(queued_log) # {}

\* ------------------------------------------------------------- the pass

\* C24: a call that ended in failure leaves a done future holding None, and
\* the pass treats it as it treats a success: the scan at the start of the
\* next pass takes every finished entry, failed ones included; the harvest
\* of a failed entry removes it from active_requests, which frees its slot,
\* invokes its callback once and leaves pending_requests alone; and that
\* pass does not end while a queued request and a free slot remain.
C24_FailureHarvestedLikeSuccess ==
    [][/\ ProcessEnter =>
            \A i \in 1..Len(active_requests) :
                active_requests[i].future = "None" =>
                    active_requests[i].id \in SeqToSet(completed_requests')
       /\ (ProcessHarvest
              /\ FutureOf(active_requests, Head(completed_requests)) = "None") =>
            LET id == Head(completed_requests)
            IN  /\ id \in ActiveIdSet /\ id \notin ActiveIdSet'
                /\ Len(active_requests') = Len(active_requests) - 1
                /\ invoked'[id] = invoked[id] + 1
                /\ UNCHANGED <<pending_requests, pc, lock>>
       /\ ProcessExit =>
            (Len(pending_requests) = 0
                 \/ Len(active_requests) >= max_concurrent)]_vars

\* With one slot: request 1 ended in failure and was harvested, and the pass
\* that harvested it gave its slot to the queued request 2.
C24_Witness ==
    /\ max_concurrent = 1
    /\ last_callback = [id |-> 1, args |-> HarvestArgs("None")]
    /\ 1 \in Harvested
    /\ ActiveIdSeq = <<2>>
    /\ 2 \in Promoted
    /\ pc[Processor] = "harvest"

\* min(free slots, queued requests) of a ledger.
PromotionsDue(active, pending) ==
    IF Len(active) >= max_concurrent THEN 0
    ELSE IF max_concurrent - Len(active) <= Len(pending)
         THEN max_concurrent - Len(active)
         ELSE Len(pending)

\* C25: a pass ends only with active_requests full or pending_requests
\* empty.  Promotions start when the harvest of the pass is over; each one
\* moves the head of the queue to the end of active_requests with a running
\* call and lowers min(free slots, queued requests) by one, and the pass
\* ends when that number is zero: the pass promotes exactly that many
\* requests, from the head of the queue.
C25_PassPromotesAllItCan ==
    [][/\ ProcessExit =>
            /\ Len(active_requests) = max_concurrent \/ pending_requests = << >>
            /\ PromotionsDue(active_requests, pending_requests) = 0
       /\ ProcessPromote =>
            /\ completed_requests = << >>
            /\ active_requests' =
                   Append(active_requests,
                          [id |-> Head(pending_requests), future |-> "running"])
            /\ pending_requests' = Tail(pending_requests)
            /\ PromotionsDue(active_requests', pending_requests') + 1 =
                   PromotionsDue(active_requests, pending_requests)
       /\ ProcessHarvest => UNCHANGED pending_requests]_vars

\* In a pass whose harvest is over, request 3 has been promoted and request
\* 4 is still to be promoted into the second free slot.
C25_Witness ==
    /\ pc[Processor] = "harvest"
    /\ completed_requests = << >>
    /\ max_concurrent = 2
    /\ ActiveIdSeq = <<3>>
    /\ pending_requests = <<4>>

\* No call of an active request has finished, and no promotion is possible.
NothingToDo ==
    /\ \A i \in 1..Len(active_requests) : active_requests[i].future = "running"
    /\ pending_requests = << >> \/ Len(active_requests) >= max_concurrent

\* C26: a pass that starts when no call has finished and no promotion is
\* possible finds nothing to harvest, and from then on it can only end: its
\* steps change neither active_requests nor pending_requests nor
\* request_counter, invoke no callback and dispatch no call.  The pass leaves
\* the manager as it found it, so a second such pass does the same.
C26_IdlePassChangesNothing ==
    /\ [](( /\ pc[Processor] = "harvest"
            /\ completed_requests = << >>
            /\ pending_requests = << >> \/ Len(active_requests) >= max_concurrent)
             => (~ENABLED ProcessHarvest /\ ~ENABLED ProcessPromote))
    /\ [][/\ (ProcessEnter /\ NothingToDo) => completed_requests' = << >>
          /\ (ProcessEnter \/ ProcessExit) =>
                UNCHANGED <<ledger, request_counter, callbacks,
                            callback_threads, submit_result, dispatch_log,
                            queued_log>>]_vars

\* A pass is under way in a manager where nothing was ever harvested or
\* promoted: the slots are full of running calls, a request is queued, and
\* the scan found nothing.
C26_Witness ==
    /\ pc[Processor] = "harvest"
    /\ completed_requests = << >>
    /\ NothingToDo
    /\ pending_requests # << >>
    /\ Harvested = {}
    /\ Promoted = {}

\* ------------------------------------------------------ the lock, again

\* C27: a call is handed to the pool only after the lock has been released:
\* in the step that hands a call over, on admission and on promotion alike,
\* no thread holds the lock.
C27_DispatchOutsideLock ==
    [][dispatch_log' # dispatch_log => lock = "free"]_vars

\* The thread is inside the with block of submit_request or of a pass.
InCriticalSection(t) == pc[t] \notin {"idle", "got_status"}

\* C28: at most one thread is inside a critical section of the manager, and
\* it is the thread that holds the lock; get_status reads the ledger only
\* when no thread is inside one.  The operations therefore take effect one
\* after the other, and submitters racing for the last slot cannot both take
\* it: active_requests never exceeds max_concurrent.
C28_MutualExclusion ==
    /\ [](/\ \A t1, t2 \in Threads :
                (InCriticalSection(t1) /\ InCriticalSection(t2)) => t1 = t2
          /\ \A t \in Threads : InCriticalSection(t) <=> lock = t
          /\ Len(active_requests) <= max_concurrent)
    /\ [][GetStatus => \A t \in Threads : ~InCriticalSection(t)]_vars

\* One thread saw a single free slot in the dict get_status gave it; the
\* other thread is now inside submit_request and has taken that slot.
C28_Witness ==
    /\ pc[StatusCaller] = "got_status"
    /\ status.active_requests + 1 = max_concurrent
    /\ \E t \in Submitters :
          /\ lock = t
          /\ pc[t] = "return_id"
          /\ request_id[t] \in ActiveIdSet
    /\ Len(active_requests) = max_concurrent

\* C29: whenever no thread holds the lock, a request is queued only if
\* active_requests holds max_concurrent entries, whether their calls are
\* still running or finished and not yet harvested.
C29_QueuedOnlyWhenFull ==
    lock = "free" =>
        (pending_requests # << >> => Len(active_requests) = max_concurrent)

\* After a pass that harvested, with the lock free: a request is queued and
\* one of the slots is held by a finished call not yet harvested.
C29_Witness ==
    /\ lock = "free"
    /\ pending_requests # << >>
    /\ Harvested # {}
    /\ \E i \in 1..Len(active_requests) : Done(active_requests[i].future)

\* C30: calls are handed to the pool in the order of the ids, which is the
\* order in which the submit_request calls took the lock: when the call of a
\* request is handed over, every admitted request with a smaller id has been
\* handed over before it, and no request still queued has a smaller id.
C30_NoQueueJumping ==
    \A j \in 1..Len(dispatch_log) :
        /\ \A a \in Admitted :
              a < dispatch_log[j] => \E i \in 1..(j - 1) : dispatch_log[i] = a
        /\ \A a \in PendingIdSet : dispatch_log[j] < a

\* Request 3 was submitted while request 2 was queued, was queued behind it,
\* and both have been promoted, 2 before 3.
C30_Witness ==
    /\ {2, 3} \subseteq Promoted
    /\ {2, 3} \subseteq Admitted
    /\ \E i, j \in 1..Len(dispatch_log) :
          i < j /\ dispatch_log[i] = 2 /\ dispatch_log[j] = 3

\* ------------------------------------------------- dispatch and the ledger

\* Requests that were dispatched and whose callback a harvest has started.
HarvestedIds == {r \in SeqToSet(dispatch_log) : invoked[r] >= 1}

\* C31: a request is in active_requests exactly when its call has been
\* handed to the pool and no harvest has taken it yet; an active request has
\* one entry and was handed over exactly once, whether its call is still
\* running or finished; a request in pending_requests was never handed over.
C31_ActiveIffDispatchedUnharvested ==
    /\ ActiveIdSet = SeqToSet(dispatch_log) \ HarvestedIds
    /\ Cardinality(ActiveIdSet) = Len(active_requests)
    /\ \A r \in ActiveIdSet : DispatchCount(r) = 1
    /\ \A r \in PendingIdSet : DispatchCount(r) = 0

\* One request has been harvested, one active call is running, another is
\* finished and not yet harvested, and a request waits in the queue.
C31_Witness ==
    /\ HarvestedIds # {}
    /\ \E i, j \in 1..Len(active_requests) :
          /\ active_requests[i].future = "running"
          /\ active_requests[j].future # "running"
    /\ pending_requests # << >>

\* ------------------------------------------------------- the worker pool

\* Calls handed to the pool whose worker has not finished them.  A call
\* leaves active_requests only by a harvest, which takes finished calls, so
\* every unfinished call is the future of an active entry.
OutstandingCalls ==
    {r \in SeqToSet(dispatch_log) :
        r \in ActiveIdSet /\ ~Done(FutureOf(active_requests, r))}

\* The pool of line 15 has max_concurrent workers.
PoolSize == max_concurrent

\* C32: the calls handed to the pool and not yet finished are never more
\* than the pool has workers, so each of them has a worker of its own and
\* none waits in the pool's queue; a dispatched call that is not in
\* active_requests has finished (it was harvested).
C32_OutstandingWithinPool ==
    /\ Cardinality(OutstandingCalls) <= PoolSize
    /\ \A r \in SeqToSet(dispatch_log) \ ActiveIdSet : invoked[r] >= 1

\* Every worker is busy after a harvest freed a slot and a promotion filled
\* it again, and a request waits in the queue for the next free slot.
C32_Witness ==
    /\ Cardinality(OutstandingCalls) = PoolSize
    /\ PoolSize = MaxConcurrentBound
    /\ Promoted # {}
    /\ pending_requests # << >>

\* ------------------------------------------------- what a harvest removes

\* The entries of active_requests whose call is still running.
RunningEntries(d) == SelectSeq(d, LAMBDA e : e.future = "running")

\* C33: a pass scans active_requests once and removes exactly the requests
\* whose call was finished at the scan: the scan lists all of them, each
\* harvest step removes the listed request and no other entry, and the pass
\* does not end before the list is empty; an entry whose call is running
\* keeps its place, its future and its callback (no invocation) through
\* every step of the pass.
C33_PassRemovesExactlyTheFinished ==
    /\ [][ProcessEnter =>
            /\ SeqToSet(completed_requests') =
                  {r \in ActiveIdSet : FutureOf(active_requests, r) # "running"}
            /\ Len(completed_requests') = Cardinality(SeqToSet(completed_requests'))
            /\ active_requests' = active_requests]_vars
    /\ [][ProcessHarvest =>
            /\ ActiveIdSet' = ActiveIdSet \ {Head(completed_requests)}
            /\ completed_requests' = Tail(completed_requests)
            /\ \A r \in ActiveIdSet' :
                  /\ FutureOf(active_requests', r) = FutureOf(active_requests, r)
                  /\ invoked'[r] = invoked[r]]_vars
    /\ [][ProcessorStep =>
            RunningEntries(active_requests) =
                SubSeq(RunningEntries(active_requests'), 1,
                       Len(RunningEntries(active_requests)))]_vars
    /\ [][(pc[Processor] = "harvest" /\ pc'[Processor] = "idle") =>
            completed_requests = << >>]_vars
    /\ [](pc[Processor] = "harvest" =>
            /\ SeqToSet(completed_requests) \subseteq ActiveIdSet
            /\ \A r \in SeqToSet(completed_requests) :
                  FutureOf(active_requests, r) # "running")

\* A pass has scanned two finished calls at once and has harvested the first
\* of them; a call that finished after the scan stays for the next pass.
C33_Witness ==
    /\ pc[Processor] = "harvest"
    /\ Len(completed_requests) = 1
    /\ \E r \in HarvestedIds : last_callback.id = r /\ r + 1 = Head(completed_requests)
    /\ pending_requests # << >>

\* ------------------------------------- shutdown and failing Thread starts

\* A processor thread that an exception of a pass ends.
PassRaised_EndsThread == "ended"
\* door_control.py lines 85-87: _request_processor catches the exception of
\* a pass, logs it, sleeps and goes round its `while True` loop again.
PassRaised == "idle"

\* door_control.py line 424: stop() shuts the pool down without waiting.
\* The processor thread is a daemon that nothing stops, and in manual mode
\* the capturing thread may still be inside a capture.
ExecutorShutdown ==
    /\ ~executor_shutdown
    /\ executor_shutdown' = TRUE
    /\ UNCHANGED <<config, door, stats, callback_threads, status,
                   request_counter, ledger, lock, pc, request_id,
                   completed_requests, history>>

\* Lines 24-27 after shutdown: the counter is incremented, executor.submit
\* raises RuntimeError, the with block is left by the exception and
\* submit_request returns nothing to its caller.
SubmitDispatchRaises(t) ==
    /\ pc[t] = "admit"
    /\ lock = t
    /\ HasFreeSlot
    /\ ExecutorRefuses
    /\ request_counter' = NextCounter(request_counter)
    /\ submit_result' =
         [submit_result EXCEPT ![NextCounter(request_counter)] = "raised"]
    /\ lock' = "free"
    /\ pc' = [pc EXCEPT ![t] = "idle"]
    /\ UNCHANGED <<config, door_system, callback_threads, status, ledger,
                   request_id, completed_requests, callbacks, dispatch_log,
                   queued_log>>

\* Lines 92-96 after shutdown: popleft() has taken the request out of the
\* queue when executor.submit raises; nothing catches the exception inside
\* process_completed_requests, so the pass ends there and the request is in
\* neither collection.
PromoteDispatchRaises ==
    /\ pc[Processor] = "harvest"
    /\ ~StartWaits
    /\ completed_requests = << >>
    /\ CanPromote
    /\ ExecutorRefuses
    /\ pending_requests' = PopLeft(pending_requests).rest
    /\ lock' = "free"
    /\ pc' = [pc EXCEPT ![Processor] = PassRaised]
    /\ UNCHANGED <<config, door_system, callback_threads, status,
                   request_counter, active_requests, request_id,
                   completed_requests, history>>

\* The text of the RuntimeError of a Thread.start() that found no resources.
StartError == "can't start new thread"

\* Lines 81-91: start() of line 87 raises RuntimeError (the interpreter can
\* start no new thread); the except branch starts the callback with
\* (None, str(e)), and this second start succeeds.
HarvestStartRetried ==
    /\ pc[Processor] = "harvest"
    /\ ~StartWaits
    /\ completed_requests # << >>
    /\ Done(FutureOf(active_requests, Head(completed_requests)))
    /\ LET id == Head(completed_requests)
       IN  /\ active_requests' = DictPop(active_requests, id)
           /\ InvokeCallback(id, [result |-> "None", error |-> StartError])
           /\ callback_threads' = callback_threads \cup {id}
    /\ completed_requests' = Tail(completed_requests)
    /\ UNCHANGED <<config, door_system, status, request_counter,
                   pending_requests, lock, pc, request_id, submit_result,
                   dispatch_log, queued_log>>

\* Lines 81-91: start() of line 87 raises and so does start() of line 91,
\* inside the except branch: the entry was popped at line 81, no callback was
\* started, and the exception ends the pass.
HarvestStartRaises ==
    /\ pc[Processor] = "harvest"
    /\ ~StartWaits
    /\ completed_requests # << >>
    /\ Done(FutureOf(active_requests, Head(completed_requests)))
    /\ active_requests' = DictPop(active_requests, Head(completed_requests))
    /\ completed_requests' = << >>
    /\ lock' = "free"
    /\ pc' = [pc EXCEPT ![Processor] = PassRaised]
    /\ UNCHANGED <<config, door_system, callback_threads, status,
                   request_counter, pending_requests, request_id, history>>

\* The manager in a door system that is stopped while requests are in the
\* ledger.
ShutdownNext ==
    \/ Next
    \/ ExecutorShutdown
    \/ \E t \in Submitters : SubmitDispatchRaises(t)
    \/ PromoteDispatchRaises
ShutdownSpec == Init /\ [][ShutdownNext]_vars

\* The same, on a machine that can run out of threads.
FaultNext ==
    \/ ShutdownNext
    \/ HarvestStartRetried
    \/ HarvestStartRaises
FaultSpec == Init /\ [][FaultNext]_vars

\* C34: every request whose submit_request returned an id is in exactly one
\* of pending_requests, active_requests, or the requests whose callback has
\* been started, also after a pass in which the dispatch of a promoted
\* request or the start of a callback Thread failed.
C34_AdmittedConserved ==
    \A r \in Admitted :
        /\ r \in PendingIdSet \/ r \in ActiveIdSet \/ invoked[r] >= 1
        /\ ~(r \in PendingIdSet /\ r \in ActiveIdSet)
        /\ ~(r \in PendingIdSet /\ invoked[r] >= 1)
        /\ ~(r \in ActiveIdSet /\ invoked[r] >= 1)

\* Steps in which a pass ends by an exception.
PassRaises == PromoteDispatchRaises \/ HarvestStartRaises

\* door_control.py lines 67-69 and 80-87: the processor is a thread of its
\* own that does nothing but passes, so a step of its pass that stays
\* possible is taken.  Nothing is assumed of the other threads.
LoopSpec == ShutdownSpec /\ WF_vars(ProcessorStep \/ PromoteDispatchRaises)

\* C35: the processor thread is always either between two passes or inside
\* one; a pass that raises leaves it between two passes with the lock free,
\* exactly as a pass that returns does; between two passes the next pass can
\* start as soon as the lock is free; and passes are executed again and
\* again for the rest of the run, unless a thread inside submit_request
\* keeps the lock for ever.
C35_ReconcilerLoopSurvives ==
    /\ [](/\ pc[Processor] \in {"idle", "harvest"}
          /\ (pc[Processor] = "idle" /\ lock = "free") => ENABLED ProcessEnter
          /\ pc[Processor] = "idle" => lock # Processor)
    /\ [][(PassRaises \/ ProcessExit) =>
            pc'[Processor] = "idle" /\ lock' = "free"]_vars
    /\ ([]<>(pc[Processor] = "harvest")) \/ (<>[](lock \in Submitters))

\* A pass has raised (it lost an admitted request) and a later pass is under
\* way and has found a finished call to harvest.
C35_Witness ==
    /\ \E r \in Admitted :
          r \notin PendingIdSet /\ r \notin ActiveIdSet /\ invoked[r] = 0
    /\ pc[Processor] = "harvest"
    /\ completed_requests # << >>

\* --------------------------------------------------- verification_callback

\* What the server's JSON body holds under the two keys the callback reads.
JsonBodies ==
    [openDoor : {"absent", "False", "True"},
     access : {"absent", "denied", "granted"}]

\* The bodies `result` can stand for: any body when the call returned a
\* parsed body, none when it returned None.
NoBody == [openDoor |-> "absent", access |-> "absent"]
BodiesOf(result) == IF result = "json" THEN JsonBodies ELSE {NoBody}

\* result.get(key, default) (door_control.py lines 201-202).
DictGet(body, key, default) ==
    IF body[key] = "absent" THEN default ELSE body[key]

\* A callback that opens the door for every result the server sent.
OpensDoor_OnAnyResult(args, body) ==
    args.error = "None" /\ args.result = "json"
\* door_control.py lines 192-208: whether verification_callback(result, error)
\* reaches Thread(target=self.control_door, args=(True,)).start(), for the
\* arguments it was passed and the body `result` stands for.
OpensDoor(args, body) ==
    IF args.error # "None" THEN FALSE
    ELSE IF args.result = "None" THEN FALSE
    ELSE /\ DictGet(body, "openDoor", "False") = "True"
         /\ DictGet(body, "access", "denied") = "granted"

\* verification_callback runs for the latest invocation, in the Thread the
\* harvest started or, for a rejection, in the submitting thread; body is
\* what the server had answered when the result is a parsed body.
VerificationCallback(body) ==
    /\ last_callback.id # NoRequest
    /\ body \in BodiesOf(last_callback.args.result)
    /\ door.id # last_callback.id
    /\ door' = [id |-> last_callback.id,
                open |-> OpensDoor(last_callback.args, body)]
    /\ UNCHANGED <<config, executor_shutdown, stats, callback_threads, status,
                   request_counter, ledger, lock, pc, request_id,
                   completed_requests, history>>

\* The manager with the door system's callback.
DoorNext ==
    \/ Next
    \/ \E body \in JsonBodies : VerificationCallback(body)
DoorSpec == Init /\ [][DoorNext]_vars

\* C36: control_door(True) is reached only by a callback that was passed no
\* error and a result whose openDoor is true and whose access is 'granted';
\* the callback of an overload rejection, of a call that failed or timed out
\* (result None), or of a result without one of the two fields leaves the
\* door shut; and the door is driven by nothing but a callback.
C36_DoorOpensOnlyWhenGranted ==
    /\ [][\A body \in JsonBodies :
            (door'.open /\ door' # door /\ VerificationCallback(body)) =>
                /\ last_callback.args.error = "None"
                /\ last_callback.args.result = "json"
                /\ body.openDoor = "True"
                /\ body.access = "granted"]_vars
    /\ [][door' # door => \E body \in JsonBodies : VerificationCallback(body)]_vars
    /\ [](door.open =>
            /\ door.id \in HarvestedIds
            /\ door.id \notin Rejected
            /\ last_callback.id = door.id => last_callback.args = HarvestArgs("json"))

\* The door has been opened for one request after the callback of a
\* rejection and the callback of a failed call had both left it shut.
C36_Witness ==
    /\ door.open
    /\ Rejected # {}
    /\ last_callback = [id |-> door.id, args |-> HarvestArgs("json")]
    /\ \E r \in HarvestedIds : r # door.id

\* ------------------------------------------------ capture_and_verify_async

\* start() (door_control.py lines 382-394) runs either the manual handler in
\* a thread or the automatic loop, never both: one thread of a run calls
\* capture_and_verify_async.  The automatic loop is the default; the manual
\* handler makes the same call.
CaptureThread == "automatic"

\* A test that counts every call of submit_request, rejected or not.
Counted_Always(returned) == TRUE
\* door_control.py lines 287 and 304: `if request_id:` holds for the id
\* string submit_request returns on admission and not for None.
Counted(returned) == returned = "id"

\* door_control.py lines 269-281: an image was captured; with face detection
\* on, a face was found in it and faces_detected is incremented (an image
\* without a face ends the capture with no call); with face detection off
\* the capture goes straight to the call.
CaptureDetect ==
    /\ stats.stage = "idle"
    /\ pc[CaptureThread] = "idle"
    /\ request_counter < MaxRequests
    /\ stats' = [stats EXCEPT
                   !.faces_detected = IF stats.face_detection THEN @ + 1 ELSE @,
                   !.stage = "detected"]
    /\ UNCHANGED <<config, executor_shutdown, door, callback_threads, status,
                   request_counter, ledger, lock, pc, request_id,
                   completed_requests, history>>

\* Lines 283 and 300: the capturing thread calls submit_request.
CaptureSubmit ==
    /\ stats.stage = "detected"
    /\ SubmitCall(CaptureThread)
    /\ stats' = [stats EXCEPT !.stage = "called"]
    /\ UNCHANGED <<executor_shutdown, door>>

\* Lines 287-288 and 304-305: submit_request has returned; api_calls_made is
\* incremented when it returned an id.  No other thread calls
\* submit_request, so the request of the call is the one the counter names.
CaptureCount ==
    /\ stats.stage = "called"
    /\ pc[CaptureThread] = "idle"
    /\ stats' = [stats EXCEPT
                   !.api_calls_made =
                       IF Counted(submit_result[request_counter])
                       THEN @ + 1 ELSE @,
                   !.stage = "idle"]
    /\ UNCHANGED <<config, executor_shutdown, door, callback_threads, status,
                   request_counter, ledger, lock, pc, request_id,
                   completed_requests, history>>

\* Face detection is on or off for the whole run.
CaptureInit ==
    /\ ManagerInit
    /\ executor_shutdown = FALSE
    /\ door = NoDoor
    /\ stats \in {InitStats(enabled) : enabled \in BOOLEAN}

\* The door system: every submit_request is the call of a capture.
CaptureNext ==
    \/ CaptureDetect
    \/ CaptureSubmit
    \/ CaptureCount
    \/ \E t \in Submitters : SubmitAdmit(t)
    \/ \E t \in Submitters : SubmitRejectCallback(t)
    \/ \E t \in Submitters : SubmitRejectCallbackReturn(t)
    \/ \E t \in Submitters : SubmitReturn(t)
    \/ \E id \in RequestIds, outcome \in CallOutcomes : WorkerFinish(id, outcome)
    \/ ProcessEnter
    \/ ProcessHarvest
    \/ ProcessPromote
    \/ ProcessExit
CaptureSpec == CaptureInit /\ [][CaptureNext]_vars

\* The capturing thread holds an id that submit_request returned and has not
\* yet counted it.
ReturnedUncounted ==
    /\ stats.stage = "called"
    /\ pc[CaptureThread] = "idle"
    /\ submit_result[request_counter] = "id"

\* C37: api_calls_made changes only by the increment that follows a
\* submit_request which returned an id, by one, once for that call, and never
\* after a rejected call; so between two captures api_calls_made is the
\* number of admitted requests (inside a capture it is behind by exactly the
\* id just returned and not yet counted), and with face detection on it never
\* exceeds faces_detected.
C37_ApiCallsCountAdmitted ==
    /\ [](/\ stats.api_calls_made + (IF ReturnedUncounted THEN 1 ELSE 0)
                = Cardinality(Admitted)
          /\ stats.stage = "idle" => stats.api_calls_made = Cardinality(Admitted)
          /\ stats.face_detection => stats.api_calls_made <= stats.faces_detected)
    /\ [][stats'.api_calls_made # stats.api_calls_made =>
            /\ stats'.api_calls_made = stats.api_calls_made + 1
            /\ ReturnedUncounted
            /\ ~ReturnedUncounted'
            /\ request_counter \notin Rejected]_vars

\* Between two captures with face detection on: two requests were admitted
\* and counted, and a third face led to a rejected call that was not.
C37_Witness ==
    /\ stats.stage = "idle"
    /\ stats.face_detection
    /\ stats.api_calls_made = 2
    /\ stats.faces_detected = 3
    /\ Rejected # {}

====
